---- MODULE Spec2Model ----
(***************************************************************************)
(* Model of the UCP sockaddr listener (src/ucp/core/ucp_listener.c):       *)
(* ucp_worker_listen, ucp_listener_destroy, the asynchronous connection    *)
(* request callback and the deferred one-shot progress callback.           *)
(*                                                                         *)
(* Listener records live on a small heap of addresses.  A freed record     *)
(* keeps its bytes until the address is handed out again, as with a C      *)
(* allocator, so a pointer kept across ucs_free() may see the old bytes, a *)
(* new record, or garbage.                                                 *)
(*                                                                         *)
(* Model of the shared-memory transport interface (src/uct/sm/mm/          *)
(* mm_iface.h): the receive FIFO with its head / tail / read_index         *)
(* cursors, the receive descriptors around uct_mm_iface_invoke_am, and the *)
(* layout of the FIFO region computed by UCT_MM_GET_FIFO_SIZE and          *)
(* uct_mm_set_fifo_ptrs.  Each part has its own specification; the parts   *)
(* do not share state, and the variables of the other parts stay at their  *)
(* initial values.                                                         *)
(***************************************************************************)
EXTENDS Integers, Sequences, FiniteSets, TLC

\* ---- bounds ------------------------------------------------------------
NumAddr     == 1   \* heap addresses available for listener records
MaxTls      == 2   \* context->num_tls is in 0..MaxTls when only the user thread runs
MaxTlsAsync == 1   \* context->num_tls is in 0..MaxTlsAsync when all threads run
MaxListen   == 2   \* calls to ucp_worker_listen
MaxReq      == 2   \* connection requests raised by the transport
NumArgs     == 1   \* distinct user arguments

\* ---- values ------------------------------------------------------------
NULL == 0                       \* the null listener pointer
Addr == 1..NumAddr
Args == 1..NumArgs

UCS_OK                == "UCS_OK"
UCS_ERR_INVALID_PARAM == "UCS_ERR_INVALID_PARAM"
UCS_ERR_INVALID_ADDR  == "UCS_ERR_INVALID_ADDR"
UCS_ERR_NO_MEMORY     == "UCS_ERR_NO_MEMORY"
UCS_ERR_IO_ERROR      == "UCS_ERR_IO_ERROR"
NoStatus              == "unset"

UCP_WORKER_LISTENER_PARAM_FIELD_SOCK_ADDR == "SOCK_ADDR"
UCP_WORKER_LISTENER_PARAM_FIELD_CALLBACK  == "CALLBACK"

\* what ucp_worker_iface_init can return for a server-mode open
IfaceInitResults == {UCS_OK, UCS_ERR_IO_ERROR}

\* ucp_worker_listener_params_t.  A field whose bit is absent from the mask
\* holds a non-null leftover ("sa", "cb", 1) that listen must not use; the
\* argument that comes with a null callback is 1.
ParamsSet ==
    {p \in [field_mask : SUBSET {UCP_WORKER_LISTENER_PARAM_FIELD_SOCK_ADDR,
                                 UCP_WORKER_LISTENER_PARAM_FIELD_CALLBACK},
            addr       : {"NULL", "sa"},
            cb         : {"NULL", "cb"},
            arg        : Args] :
        /\ UCP_WORKER_LISTENER_PARAM_FIELD_SOCK_ADDR \notin p.field_mask => p.addr = "sa"
        /\ UCP_WORKER_LISTENER_PARAM_FIELD_CALLBACK \notin p.field_mask =>
               (p.cb = "cb" /\ p.arg = 1)
        /\ p.cb = "NULL" => p.arg = 1}

NoParams == [field_mask |-> {}, addr |-> "NULL", cb |-> "NULL", arg |-> 1]

\* context->tl_rscs with the md attributes the listener looks at: the
\* UCT_MD_FLAG_SOCKADDR flag and, for an md that has it, the answer of
\* uct_md_is_sockaddr_accessible
TlRsc == {r \in [sockaddr_cap : BOOLEAN, accessible : BOOLEAN] :
             r.accessible => r.sockaddr_cap}

RECURSIVE SeqsUpTo(_, _)
SeqsUpTo(S, n) ==
    IF n = 0 THEN {<<>>}
    ELSE LET shorter == SeqsUpTo(S, n - 1)
         IN  shorter \cup {Append(s, x) : s \in {t \in shorter : Len(t) = n - 1}, x \in S}

VARIABLES
    tls,          \* context->tl_rscs[0 .. num_tls-1], kept at index tl_id + 1
    heap,         \* listener records by address
    gen,          \* per address: how many records have lived there
    handles,      \* listeners the user holds (returned by listen, not destroyed)
    pc,           \* position of the user thread inside ucp_worker_listen
    params,       \* argument of the running ucp_worker_listen
    tl_id,        \* loop variable of ucp_worker_listen
    listener,     \* local 'listener' of ucp_worker_listen
    status,       \* local 'status' of ucp_worker_listen
    listener_p,   \* the caller's output variable
    mt_lock,      \* depth of worker->mt_lock
    async_block,  \* depth of UCS_ASYNC_BLOCK(&worker->async)
    ev,           \* what the running / last listen call did, in order
    queue,        \* worker progress queue: registered one-shot items
    requests,     \* log of connection-request callback invocations
    calls,        \* log of user accept callback invocations
    n_listen,     \* number of listen calls made
    accepts,      \* per request, its accept record: live, times read, times freed
    crashed       \* the process jumped through a null or wild pointer

\* shared-memory transport (uct/sm/mm): one receive FIFO, the receive
\* descriptor pools of the interfaces, and the layout of a FIFO region
VARIABLES
    fifo_size,                 \* iface->config.fifo_size (0: no FIFO opened)
    release_fifo_factor,       \* configured factor, in FactorDen-ths
    fifo_release_factor_mask,  \* iface->fifo_release_factor_mask
    head,                      \* recv_fifo_ctl->head
    tail,                      \* recv_fifo_ctl->tail
    read_index,                \* iface->read_index
    elems,                     \* FIFO elements by slot: flags owner bit, data
    ep_pc,                     \* position of the producer inside a write
    ep_head,                   \* the head value the producer took
    ep_data,                   \* the payload the producer is writing
    cons_pc,                   \* position of the consumer inside progress
    written,                   \* payloads of the successful writes, in order
    dispatched,                \* payloads handed to the AM handler, in order
    fifo_log,                  \* write results and reads, in order
    since_tail,                \* consumer advances since tail was published
    recv_desc_mp,              \* per interface: descriptors free in its pool
    last_recv_desc,            \* per interface: iface->last_recv_desc
    held,                      \* descriptors kept by AM handlers
    desc_iface,                \* per descriptor: uct_recv_desc_iface(desc)
    am_log,                    \* dispatches and releases, in order
    mm_fatal,                  \* ucs_fatal was reached
    mem_region,                \* start address of a mapped FIFO region
    cache_line,                \* UCS_SYS_CACHE_LINE_SIZE of the build
    elem_size,                 \* iface->elem_size
    region_size,               \* bytes mapped for the region
    fifo_ctl,                  \* *fifo_ctl set by uct_mm_set_fifo_ptrs
    fifo_elems                 \* *fifo_elems set by uct_mm_set_fifo_ptrs

fifoVars   == <<fifo_size, release_fifo_factor, fifo_release_factor_mask,
                head, tail, read_index, elems, ep_pc, ep_head, ep_data,
                cons_pc, written, dispatched, fifo_log, since_tail>>
descVars   == <<recv_desc_mp, last_recv_desc, held, desc_iface, am_log,
                mm_fatal>>
layoutVars == <<mem_region, cache_line, elem_size, region_size, fifo_ctl,
                fifo_elems>>
mmVars     == <<fifoVars, descVars, layoutVars>>

ucpVars == <<tls, heap, gen, handles, pc, params, tl_id, listener, status,
             listener_p, mt_lock, async_block, ev, queue, requests, calls,
             n_listen, accepts, crashed>>

vars == <<ucpVars, mmVars>>

listenLocals == <<params, tl_id, listener, status>>
asyncSide    == <<queue, requests>>

Event(op, tl, st) == [op |-> op, tl |-> tl, st |-> st]

FreeRecord == [alloc |-> FALSE, cb |-> "NULL", arg |-> 1, iface |-> FALSE]

\* no receive FIFO is open
FifoClosed ==
    /\ fifo_size = 0
    /\ release_fifo_factor = 0
    /\ fifo_release_factor_mask = 0
    /\ head = 0
    /\ tail = 0
    /\ read_index = 0
    /\ elems = <<>>
    /\ ep_pc = "idle"
    /\ ep_head = 0
    /\ ep_data = 0
    /\ cons_pc = "poll"
    /\ written = <<>>
    /\ dispatched = <<>>
    /\ fifo_log = <<>>
    /\ since_tail = 0

\* no interface owns a receive descriptor pool
DescClosed ==
    /\ recv_desc_mp = <<>>
    /\ last_recv_desc = <<>>
    /\ held = {}
    /\ desc_iface = <<>>
    /\ am_log = <<>>
    /\ mm_fatal = FALSE

\* no FIFO region is mapped
LayoutClosed ==
    /\ mem_region = 0
    /\ cache_line = 0
    /\ elem_size = 0
    /\ region_size = 0
    /\ fifo_ctl = 0
    /\ fifo_elems = 0

\* no shared-memory interface is open
MmClosed == FifoClosed /\ DescClosed /\ LayoutClosed

\* the worker's listener side with the resource list rscs, before any
\* listen call
InitWorker(rscs) ==
    /\ tls = rscs
    /\ heap = [a \in Addr |-> FreeRecord]
    /\ gen = [a \in Addr |-> 0]
    /\ handles = {}
    /\ pc = "idle"
    /\ params = NoParams
    /\ tl_id = 0
    /\ listener = NULL
    /\ status = NoStatus
    /\ listener_p = NULL
    /\ mt_lock = 0
    /\ async_block = 0
    /\ ev = <<>>
    /\ queue = <<>>
    /\ requests = <<>>
    /\ calls = <<>>
    /\ n_listen = 0
    /\ accepts = <<>>
    /\ crashed = FALSE

\* a worker with the resource list rscs, before any listen call
InitWith(rscs) == InitWorker(rscs) /\ MmClosed

Init       == \E rscs \in SeqsUpTo(TlRsc, MaxTlsAsync) : InitWith(rscs)
InitListen == \E rscs \in SeqsUpTo(TlRsc, MaxTls) : InitWith(rscs)

\* ---- ucp_worker_listen -------------------------------------------------

\* variant: the capability flag alone decides, accessibility is not asked
SockaddrAccessible_FlagOnly(rsc) == rsc.sockaddr_cap

\* the test of lines 93-95, on resource tl_id
SockaddrAccessible(rsc) == rsc.sockaddr_cap /\ rsc.accessible

\* resources the md of which is asked uct_md_is_sockaddr_accessible only
\* when the capability flag is set (short-circuit ||)
ConsultEvents(rsc, id) ==
    IF rsc.sockaddr_cap
    THEN <<Event("md_flags", id, NoStatus), Event("md_accessible", id, NoStatus)>>
    ELSE <<Event("md_flags", id, NoStatus)>>

\* entry and UCP_THREAD_CS_ENTER_CONDITIONAL
Listen_Enter(p) ==
    /\ pc = "idle"
    /\ ~crashed
    /\ n_listen < MaxListen
    /\ n_listen' = n_listen + 1
    /\ params' = p
    /\ tl_id' = 0
    /\ listener' = NULL
    /\ status' = NoStatus
    /\ listener_p' = NULL
    /\ mt_lock' = mt_lock + 1
    /\ ev' = <<Event("cs_enter", 0, NoStatus)>>
    /\ pc' = "async_block"
    /\ UNCHANGED <<mmVars, accepts, tls, heap, gen, handles, async_block, queue, requests,
                   calls, crashed>>

\* UCS_ASYNC_BLOCK
Listen_AsyncBlock ==
    /\ pc = "async_block"
    /\ async_block' = async_block + 1
    /\ ev' = Append(ev, Event("async_block", 0, NoStatus))
    /\ pc' = "check_mask"
    /\ UNCHANGED <<mmVars, accepts, tls, heap, gen, handles, listenLocals, listener_p, mt_lock,
                   queue, requests, calls, n_listen, crashed>>

\* variant: a missing sockaddr bit returns at once instead of goto out
Listen_CheckMask_EarlyReturn ==
    /\ pc = "check_mask"
    /\ IF UCP_WORKER_LISTENER_PARAM_FIELD_SOCK_ADDR \notin params.field_mask
       THEN /\ status' = UCS_ERR_INVALID_PARAM
            /\ pc' = "ret"
       ELSE /\ status' = status
            /\ pc' = "check_addr"
    /\ UNCHANGED <<mmVars, accepts, tls, heap, gen, handles, params, tl_id, listener,
                   listener_p, mt_lock, async_block, ev, queue, requests,
                   calls, n_listen, crashed>>

\* if (!(params->field_mask & ..._SOCK_ADDR))
Listen_CheckMask ==
    /\ pc = "check_mask"
    /\ IF UCP_WORKER_LISTENER_PARAM_FIELD_SOCK_ADDR \notin params.field_mask
       THEN /\ status' = UCS_ERR_INVALID_PARAM
            /\ pc' = "out"
       ELSE /\ status' = status
            /\ pc' = "check_addr"
    /\ UNCHANGED <<mmVars, accepts, tls, heap, gen, handles, params, tl_id, listener,
                   listener_p, mt_lock, async_block, ev, queue, requests,
                   calls, n_listen, crashed>>

\* variant: the address pointer is not checked
Listen_CheckAddr_Unchecked ==
    /\ pc = "check_addr"
    /\ status' = status
    /\ pc' = "scan"
    /\ UNCHANGED <<mmVars, accepts, tls, heap, gen, handles, params, tl_id, listener,
                   listener_p, mt_lock, async_block, ev, queue, requests,
                   calls, n_listen, crashed>>

\* UCP_CHECK_PARAM_NON_NULL(params->sockaddr.addr, status, goto out)
Listen_CheckAddr ==
    /\ pc = "check_addr"
    /\ IF params.addr = "NULL"
       THEN /\ status' = UCS_ERR_INVALID_PARAM
            /\ pc' = "out"
       ELSE /\ status' = status
            /\ pc' = "scan"
    /\ UNCHANGED <<mmVars, accepts, tls, heap, gen, handles, params, tl_id, listener,
                   listener_p, mt_lock, async_block, ev, queue, requests,
                   calls, n_listen, crashed>>

\* one round of for (tl_id = 0; tl_id < context->num_tls; ++tl_id)
Listen_Scan ==
    /\ pc = "scan"
    /\ IF tl_id < Len(tls)
       THEN /\ ev' = ev \o ConsultEvents(tls[tl_id + 1], tl_id)
            /\ IF SockaddrAccessible(tls[tl_id + 1])
               THEN /\ tl_id' = tl_id
                    /\ pc' = "malloc"
               ELSE /\ tl_id' = tl_id + 1
                    /\ pc' = "scan"
       ELSE /\ ev' = ev
            /\ tl_id' = tl_id
            /\ pc' = "no_tl"
    /\ UNCHANGED <<mmVars, accepts, tls, heap, gen, handles, params, listener, status,
                   listener_p, mt_lock, async_block, queue, requests, calls,
                   n_listen, crashed>>

\* listener = ucs_malloc(sizeof(*listener)); the bytes are not initialised
Listen_Malloc ==
    /\ pc = "malloc"
    /\ \/ \E a \in Addr :
            /\ ~heap[a].alloc
            /\ heap' = [heap EXCEPT ![a].alloc = TRUE]
            /\ gen' = [gen EXCEPT ![a] = @ + 1]
            /\ listener' = a
            /\ status' = status
            /\ ev' = Append(ev, Event("malloc", tl_id, UCS_OK))
            /\ pc' = "set_cb"
       \/ /\ listener' = NULL
          /\ status' = UCS_ERR_NO_MEMORY
          /\ ev' = Append(ev, Event("malloc", tl_id, UCS_ERR_NO_MEMORY))
          /\ pc' = "out"
          /\ UNCHANGED <<heap, gen>>
    /\ UNCHANGED <<mmVars, accepts, tls, handles, params, tl_id, listener_p, mt_lock,
                   async_block, queue, requests, calls, n_listen, crashed>>

\* variant: a null callback leaves through out instead of err_free
Listen_SetCb_GotoOut ==
    /\ pc = "set_cb"
    /\ IF UCP_WORKER_LISTENER_PARAM_FIELD_CALLBACK \in params.field_mask
       THEN IF params.cb = "NULL"
            THEN /\ status' = UCS_ERR_INVALID_PARAM
                 /\ pc' = "out"
                 /\ heap' = heap
            ELSE /\ heap' = [heap EXCEPT ![listener].cb  = params.cb,
                                         ![listener].arg = params.arg]
                 /\ status' = status
                 /\ pc' = "iface_init"
       ELSE /\ heap' = [heap EXCEPT ![listener].cb = "NULL"]
            /\ status' = status
            /\ pc' = "iface_init"
    /\ UNCHANGED <<mmVars, accepts, tls, gen, handles, params, tl_id, listener, listener_p,
                   mt_lock, async_block, ev, queue, requests, calls, n_listen,
                   crashed>>

\* lines 105-111
Listen_SetCb ==
    /\ pc = "set_cb"
    /\ IF UCP_WORKER_LISTENER_PARAM_FIELD_CALLBACK \in params.field_mask
       THEN IF params.cb = "NULL"
            THEN /\ status' = UCS_ERR_INVALID_PARAM
                 /\ pc' = "err_free"
                 /\ heap' = heap
            ELSE /\ heap' = [heap EXCEPT ![listener].cb  = params.cb,
                                         ![listener].arg = params.arg]
                 /\ status' = status
                 /\ pc' = "iface_init"
       ELSE /\ heap' = [heap EXCEPT ![listener].cb = "NULL"]
            /\ status' = status
            /\ pc' = "iface_init"
    /\ UNCHANGED <<mmVars, accepts, tls, gen, handles, params, tl_id, listener, listener_p,
                   mt_lock, async_block, ev, queue, requests, calls, n_listen,
                   crashed>>

\* variant: a failed open frees the record and continues with the next resource
Listen_IfaceInit_TryNext ==
    /\ pc = "iface_init"
    /\ \E r \in IfaceInitResults :
         /\ status' = r
         /\ ev' = Append(ev, Event("iface_open", tl_id, r))
         /\ heap' = [heap EXCEPT ![listener].iface = (r = UCS_OK),
                                 ![listener].alloc = (r = UCS_OK)]
         /\ listener' = IF r = UCS_OK THEN listener ELSE NULL
         /\ tl_id' = IF r = UCS_OK THEN tl_id ELSE tl_id + 1
         /\ pc' = IF r = UCS_OK THEN "publish" ELSE "scan"
    /\ UNCHANGED <<mmVars, accepts, tls, gen, handles, params, listener_p,
                   mt_lock, async_block, queue, requests, calls, n_listen,
                   crashed>>

\* status = ucp_worker_iface_init(worker, tl_id, &iface_params, &listener->wiface)
Listen_IfaceInit ==
    /\ pc = "iface_init"
    /\ \E r \in IfaceInitResults :
         /\ status' = r
         /\ ev' = Append(ev, Event("iface_open", tl_id, r))
         /\ heap' = [heap EXCEPT ![listener].iface = (r = UCS_OK)]
         /\ pc' = IF r = UCS_OK THEN "publish" ELSE "err_free"
    /\ UNCHANGED <<mmVars, accepts, tls, gen, handles, params, tl_id, listener, listener_p,
                   mt_lock, async_block, queue, requests, calls, n_listen,
                   crashed>>

\* *listener_p = listener; status = UCS_OK; goto out
Listen_Publish ==
    /\ pc = "publish"
    /\ listener_p' = listener
    /\ status' = UCS_OK
    /\ ev' = Append(ev, Event("write_listener_p", tl_id, UCS_OK))
    /\ pc' = "out"
    /\ UNCHANGED <<mmVars, accepts, tls, heap, gen, handles, params, tl_id, listener, mt_lock,
                   async_block, queue, requests, calls, n_listen, crashed>>

\* after the loop: status = UCS_ERR_INVALID_ADDR, falling into err_free
Listen_NoTl ==
    /\ pc = "no_tl"
    /\ status' = UCS_ERR_INVALID_ADDR
    /\ pc' = "err_free"
    /\ UNCHANGED <<mmVars, accepts, tls, heap, gen, handles, params, tl_id, listener,
                   listener_p, mt_lock, async_block, ev, queue, requests,
                   calls, n_listen, crashed>>

\* err_free: ucs_free(listener); free(NULL) does nothing
Listen_ErrFree ==
    /\ pc = "err_free"
    /\ IF listener # NULL
       THEN /\ heap' = [heap EXCEPT ![listener].alloc = FALSE,
                                    ![listener].iface = FALSE]
            /\ ev' = Append(ev, Event("free", tl_id, NoStatus))
       ELSE /\ heap' = heap
            /\ ev' = ev
    /\ pc' = "out"
    /\ UNCHANGED <<mmVars, accepts, tls, gen, handles, listenLocals, listener_p, mt_lock,
                   async_block, queue, requests, calls, n_listen, crashed>>

\* out: UCS_ASYNC_UNBLOCK
Listen_AsyncUnblock ==
    /\ pc = "out"
    /\ async_block' = async_block - 1
    /\ ev' = Append(ev, Event("async_unblock", 0, NoStatus))
    /\ pc' = "cs_exit"
    /\ UNCHANGED <<mmVars, accepts, tls, heap, gen, handles, listenLocals, listener_p, mt_lock,
                   queue, requests, calls, n_listen, crashed>>

\* UCP_THREAD_CS_EXIT_CONDITIONAL
Listen_CsExit ==
    /\ pc = "cs_exit"
    /\ mt_lock' = mt_lock - 1
    /\ ev' = Append(ev, Event("cs_exit", 0, NoStatus))
    /\ pc' = "ret"
    /\ UNCHANGED <<mmVars, accepts, tls, heap, gen, handles, listenLocals, listener_p,
                   async_block, queue, requests, calls, n_listen, crashed>>

\* return status; the caller keeps the handle when the status is UCS_OK
Listen_Return ==
    /\ pc = "ret"
    /\ handles' = IF status = UCS_OK THEN handles \cup {listener_p} ELSE handles
    /\ pc' = "idle"
    /\ params' = NoParams
    /\ tl_id' = 0
    /\ listener' = NULL
    /\ status' = NoStatus
    /\ listener_p' = NULL
    /\ ev' = <<>>
    /\ UNCHANGED <<mmVars, accepts, tls, heap, gen, mt_lock, async_block, queue, requests,
                   calls, n_listen, crashed>>

ucp_worker_listen ==
    \/ \E p \in ParamsSet : Listen_Enter(p)
    \/ Listen_AsyncBlock
    \/ Listen_CheckMask
    \/ Listen_CheckAddr
    \/ Listen_Scan
    \/ Listen_Malloc
    \/ Listen_SetCb
    \/ Listen_IfaceInit
    \/ Listen_Publish
    \/ Listen_NoTl
    \/ Listen_ErrFree
    \/ Listen_AsyncUnblock
    \/ Listen_CsExit
    \/ Listen_Return

\* ---- the transport's asynchronous thread -------------------------------

\* UCS_ASYNC_BLOCK keeps async callbacks of the worker from running
AsyncCallbacksEnabled == async_block = 0

\* uct_worker_progress_register_safe: the item goes to the back of the queue
ProgressRegister(q, item) == Append(q, item)

\* the worker dispatches registered items front first
ProgressNext(q) == Head(q)

\* the server-mode interface raises requests while it is open
Listening(a) == heap[a].alloc /\ heap[a].iface

\* ucp_listener_accept_t, with the request it was made for
AcceptRecord(a, id) == [listener |-> a, gen |-> gen[a], req |-> id]

\* one connection-request callback invocation: the listener it ran for, the
\* callback pointer it read, what ucs_malloc(sizeof(*accept)) gave ("none"
\* when not called), the status returned, whether an item was registered
RequestEntry(id, a, accept, st, deferred) ==
    [id |-> id, lst |-> a, gen |-> gen[a], cb |-> heap[a].cb,
     accept |-> accept, status |-> st, deferred |-> deferred]

\* variant: the result of ucs_malloc is not checked
ConnRequestOutcome_Unchecked(cb, malloc_ok) ==
    IF cb # "NULL"
    THEN IF ~malloc_ok
         THEN [accept |-> "null", status |-> UCS_OK, deferred |-> TRUE]
         ELSE [accept |-> "ok", status |-> UCS_OK, deferred |-> TRUE]
    ELSE [accept |-> "none", status |-> UCS_OK, deferred |-> FALSE]

\* variant: the listener's callback pointer is not looked at
ConnRequestOutcome_Always(cb, malloc_ok) ==
    IF ~malloc_ok
    THEN [accept |-> "null", status |-> UCS_ERR_NO_MEMORY, deferred |-> FALSE]
    ELSE [accept |-> "ok", status |-> UCS_OK, deferred |-> TRUE]

\* lines 39-58 as a function of the callback pointer read from the listener
\* and of the outcome of ucs_malloc(sizeof(*accept)): whether malloc was
\* called and what it gave, the status returned, whether an item is registered
ConnRequestOutcome(cb, malloc_ok) ==
    IF cb # "NULL"
    THEN IF ~malloc_ok
         THEN [accept |-> "null", status |-> UCS_ERR_NO_MEMORY, deferred |-> FALSE]
         ELSE [accept |-> "ok", status |-> UCS_OK, deferred |-> TRUE]
    ELSE [accept |-> "none", status |-> UCS_OK, deferred |-> FALSE]

\* lines 40-48: a record fresh from ucs_malloc, not yet read or freed
NewAccept == [live |-> TRUE, reads |-> 0, frees |-> 0]
\* the invocation has no accept record (no ucs_malloc, or it gave NULL)
NoAccept  == [live |-> FALSE, reads |-> 0, frees |-> 0]

\* ucp_listener_conn_request_callback(arg = listener at address a, ...);
\* malloc_ok is the outcome of ucs_malloc(sizeof(*accept)) when it is called
ucp_listener_conn_request_callback(a, malloc_ok) ==
    LET id  == Len(requests) + 1
        out == ConnRequestOutcome(heap[a].cb, malloc_ok)
    IN  /\ ~crashed
        /\ Len(requests) < MaxReq
        /\ Listening(a)
        /\ AsyncCallbacksEnabled
        /\ (heap[a].cb = "NULL" => malloc_ok)   \* no allocation, one outcome
        /\ requests' = Append(requests,
                          RequestEntry(id, a, out.accept, out.status, out.deferred))
        /\ queue' = IF out.deferred
                    THEN ProgressRegister(queue, AcceptRecord(a, id))
                    ELSE queue
        /\ accepts' = Append(accepts, IF out.accept = "ok" THEN NewAccept
                                                           ELSE NoAccept)
        /\ UNCHANGED <<mmVars, tls, heap, gen, handles, pc, listenLocals, listener_p,
                       mt_lock, async_block, ev, calls, n_listen, crashed>>

\* ---- the worker progress thread ---------------------------------------

\* what dereferencing a listener pointer can give: the record while it is
\* allocated (the one the pointer was taken for, or one that reuses the
\* address); after ucs_free, the old bytes or garbage
ReadListener(a) ==
    IF heap[a].alloc
    THEN {[cb |-> heap[a].cb, arg |-> heap[a].arg]}
    ELSE {[cb |-> heap[a].cb, arg |-> heap[a].arg],
          [cb |-> "wild", arg |-> heap[a].arg]}

CallEntry(accept, view, thread) ==
    [req    |-> accept.req,
     lst    |-> accept.listener,
     gen    |-> gen[accept.listener],
     cb     |-> view.cb,
     arg    |-> view.arg,
     thread |-> thread,
     freed  |-> ~heap[accept.listener].alloc \/ gen[accept.listener] # accept.gen]

\* variant: the run does not free its accept record
AcceptAfterRun_NoFree(rec, returned) == [rec EXCEPT !.reads = @ + 1]

\* lines 16-21: the run reads accept->listener and accept->ep, and when the
\* user callback has returned it calls ucs_free(accept)
AcceptAfterRun(rec, returned) ==
    IF returned
    THEN [rec EXCEPT !.reads = @ + 1, !.frees = @ + 1, !.live = FALSE]
    ELSE [rec EXCEPT !.reads = @ + 1]

\* ucp_listener_conn_request_progress(arg = accept), run once by the worker:
\* accept->listener->cb(accept->ep, accept->listener->arg); ucs_free(accept)
ucp_listener_conn_request_progress ==
    /\ ~crashed
    /\ mt_lock = 0
    /\ queue # <<>>
    /\ LET accept == ProgressNext(queue)
       IN  \E view \in ReadListener(accept.listener) :
             /\ calls' = Append(calls, CallEntry(accept, view, "worker"))
             /\ crashed' = (view.cb \in {"NULL", "wild"})
             /\ accepts' = [accepts EXCEPT ![accept.req] =
                                AcceptAfterRun(@, ~crashed')]
    /\ queue' = Tail(queue)
    /\ UNCHANGED <<mmVars, tls, heap, gen, handles, pc, listenLocals, listener_p,
                   mt_lock, async_block, ev, requests, n_listen>>

\* ucp_listener_destroy(listener): ucp_worker_iface_cleanup, ucs_free;
\* registered progress items are left alone (the TODO of line 150)
ucp_listener_destroy(a) ==
    /\ ~crashed
    /\ pc = "idle"
    /\ a \in handles
    /\ heap' = [heap EXCEPT ![a].iface = FALSE, ![a].alloc = FALSE]
    /\ handles' = handles \ {a}
    /\ UNCHANGED <<mmVars, accepts, tls, gen, pc, listenLocals, listener_p, mt_lock,
                   async_block, ev, queue, requests, calls, n_listen, crashed>>

Next ==
    \/ ucp_worker_listen
    \/ \E a \in Addr, ok \in BOOLEAN : ucp_listener_conn_request_callback(a, ok)
    \/ ucp_listener_conn_request_progress
    \/ \E a \in Addr : ucp_listener_destroy(a)

Spec == Init /\ [][Next]_vars

\* the user thread alone: listeners are created and destroyed while the
\* transport raises no connection request
NextListen ==
    \/ ucp_worker_listen
    \/ \E a \in Addr : ucp_listener_destroy(a)

SpecListen == InitListen /\ [][NextListen]_vars

TypeOK ==
    /\ pc \in {"idle", "async_block", "check_mask", "check_addr", "scan",
               "malloc", "set_cb", "iface_init", "publish", "no_tl",
               "err_free", "out", "cs_exit", "ret"}
    /\ params \in ParamsSet \cup {NoParams}
    /\ listener \in Addr \cup {NULL}
    /\ listener_p \in Addr \cup {NULL}
    /\ handles \subseteq Addr
    /\ mt_lock \in 0..1
    /\ async_block \in 0..1
    /\ Len(requests) <= MaxReq
    /\ n_listen <= MaxListen

\* ---- reading the record of a listen call -------------------------------

Ops(op)   == SelectSeq(ev, LAMBDA e : e.op = op)
Count(op) == Len(Ops(op))

InListen == pc # "idle"
Returning == pc = "ret"

SockaddrGiven(p) ==
    /\ UCP_WORKER_LISTENER_PARAM_FIELD_SOCK_ADDR \in p.field_mask
    /\ p.addr # "NULL"

NullCallbackGiven(p) ==
    /\ UCP_WORKER_LISTENER_PARAM_FIELD_CALLBACK \in p.field_mask
    /\ p.cb = "NULL"

ParamsValid(p) == SockaddrGiven(p) /\ ~NullCallbackGiven(p)

Matching == {i \in 0..(Len(tls) - 1) : tls[i + 1].sockaddr_cap /\ tls[i + 1].accessible}

\* lowest matching resource index, -1 when there is none
FirstMatch ==
    IF Matching = {} THEN -1
    ELSE CHOOSE i \in Matching : \A j \in Matching : i <= j

ListenerAllocated == \E i \in DOMAIN ev : ev[i].op = "malloc" /\ ev[i].st = UCS_OK

\* ---- C4 ----------------------------------------------------------------
\* C4: when the sockaddr bit is absent from the field mask, or the bit is set
\* and the address pointer is null, ucp_worker_listen returns
\* UCS_ERR_INVALID_PARAM and, at no point of the call, consults a transport
\* resource, allocates a listener record, opens an interface or writes the
\* caller's listener output.
C4_SockaddrRejected ==
    (InListen /\ ~SockaddrGiven(params)) =>
        /\ Count("md_flags") = 0
        /\ Count("md_accessible") = 0
        /\ Count("malloc") = 0
        /\ Count("iface_open") = 0
        /\ Count("write_listener_p") = 0
        /\ listener = NULL
        /\ listener_p = NULL
        /\ \A a \in Addr : heap[a].alloc => a \in handles
        /\ pc \in {"out", "cs_exit", "ret"} => status = UCS_ERR_INVALID_PARAM

\* a call with the sockaddr bit set and a null address returns, on a worker
\* whose first resource could have served a listener
C4_Witness ==
    /\ Returning
    /\ UCP_WORKER_LISTENER_PARAM_FIELD_SOCK_ADDR \in params.field_mask
    /\ params.addr = "NULL"
    /\ FirstMatch = 0
    /\ status = UCS_ERR_INVALID_PARAM

\* ---- C5 ----------------------------------------------------------------
\* C5: with valid params (sockaddr given, no null callback with the callback
\* bit set) and no resource that has the sockaddr capability and reports the
\* address locally accessible (zero resources included), ucp_worker_listen
\* returns UCS_ERR_INVALID_ADDR, opens no interface and leaves the caller's
\* listener output unwritten.
C5_NoResourceInvalidAddr ==
    (InListen /\ ParamsValid(params) /\ FirstMatch = -1) =>
        /\ Count("iface_open") = 0
        /\ Count("write_listener_p") = 0
        /\ listener_p = NULL
        /\ \A a \in Addr : ~(heap[a].iface /\ a \notin handles)
        /\ Returning => status = UCS_ERR_INVALID_ADDR

\* such a call returns after looking at a resource that has the capability
\* but cannot reach the address
C5_Witness ==
    /\ Returning
    /\ ParamsValid(params)
    /\ FirstMatch = -1
    /\ Len(tls) >= 1
    /\ tls[1].sockaddr_cap
    /\ Count("md_accessible") >= 1
    /\ status = UCS_ERR_INVALID_ADDR

\* ---- C3 ----------------------------------------------------------------
\* C3: for every resource list and every params with the sockaddr given,
\* ucp_worker_listen with the callback bit set and a null callback pointer
\* returns UCS_ERR_INVALID_PARAM and publishes no listener.
C3_NullCallbackRejected ==
    (Returning /\ SockaddrGiven(params) /\ NullCallbackGiven(params)) =>
        /\ status = UCS_ERR_INVALID_PARAM
        /\ listener_p = NULL

\* ---- C6 ----------------------------------------------------------------
Flags == Ops("md_flags")
Opens == Ops("iface_open")

\* C6: ucp_worker_listen looks at the resources in increasing index; it
\* attempts ucp_worker_iface_init on no resource other than the lowest-indexed
\* one that has the sockaddr capability and reports the address locally
\* accessible, at most once, and on exactly that one once the listener record
\* is allocated and the callback fields are accepted.  After the attempt no
\* further resource is looked at.  A failed attempt's status is what listen
\* returns, with nothing published; a successful attempt publishes the
\* listener and listen returns UCS_OK.
C6_FirstMatchOnly ==
    InListen =>
        /\ \A i \in DOMAIN Flags : Flags[i].tl = i - 1
        /\ Len(Opens) <= 1
        /\ \A i \in DOMAIN Opens : Opens[i].tl = FirstMatch
        /\ Len(Opens) = 1 => /\ Len(Flags) = FirstMatch + 1
                             /\ ev[Len(ev)].op # "md_flags"
                             /\ ev[Len(ev)].op # "md_accessible"
        /\ (Returning /\ Len(Opens) = 1 /\ Opens[1].st # UCS_OK) =>
               /\ status = Opens[1].st
               /\ listener_p = NULL
               /\ Count("write_listener_p") = 0
               /\ ~heap[listener].iface
        /\ (Returning /\ Len(Opens) = 1 /\ Opens[1].st = UCS_OK) =>
               /\ status = UCS_OK
               /\ listener_p = listener
               /\ Listening(listener_p)
        /\ (Returning /\ ParamsValid(params) /\ FirstMatch >= 0 /\ ListenerAllocated) =>
               Len(Opens) = 1

\* the open on resource 0 failed, resource 1 matches as well, and listen
\* returns the failure
C6_Witness ==
    /\ Returning
    /\ Len(tls) >= 2
    /\ FirstMatch = 0
    /\ 1 \in Matching
    /\ Len(Opens) = 1
    /\ Opens[1].st = UCS_ERR_IO_ERROR
    /\ status = UCS_ERR_IO_ERROR

\* ---- C7 ----------------------------------------------------------------
\* C7 (state part): a listen call starts with one critical-section enter
\* followed by one async block before anything else; when it returns, with
\* any status, it has unblocked async once and then left the critical section
\* once, as its last two operations, and neither is held.
C7_Bracket ==
    /\ InListen =>
          /\ ev[1].op = "cs_enter"
          /\ pc # "async_block" => (Len(ev) >= 2 /\ ev[2].op = "async_block")
          /\ Count("cs_enter") = 1
          /\ Count("async_block") <= 1
          /\ Count("async_unblock") <= 1
          /\ Count("cs_exit") <= 1
          /\ pc \notin {"async_block", "cs_exit", "ret"} =>
                 (mt_lock = 1 /\ async_block = 1)
    /\ Returning =>
          /\ status \in {UCS_OK, UCS_ERR_INVALID_PARAM, UCS_ERR_INVALID_ADDR,
                         UCS_ERR_NO_MEMORY, UCS_ERR_IO_ERROR}
          /\ Count("async_block") = 1
          /\ Count("async_unblock") = 1
          /\ Count("cs_exit") = 1
          /\ ev[Len(ev) - 1].op = "async_unblock"
          /\ ev[Len(ev)].op = "cs_exit"
    /\ pc \in {"idle", "ret"} => (mt_lock = 0 /\ async_block = 0)

\* C7 (step part): while async is blocked no connection-request callback
\* runs: the request log and the progress queue do not grow.
C7_NoCallbackWhileBlocked ==
    (async_block > 0) => /\ requests' = requests
                         /\ Len(queue') <= Len(queue)

\* C7: every listen call is bracketed by exactly one enter/block and one
\* unblock/exit on every return path, and no connection-request callback of
\* the worker runs between the block and the unblock.
C7_CriticalSection == []C7_Bracket /\ [][C7_NoCallbackWhileBlocked]_vars

\* listen returns an error while another listener of the worker is accepting
\* requests and has received one
C7_Witness ==
    /\ Returning
    /\ status # UCS_OK
    /\ \E a \in handles : Listening(a) /\ \E i \in DOMAIN requests : requests[i].lst = a

\* ---- C8 ----------------------------------------------------------------
Mallocs == SelectSeq(ev, LAMBDA e : e.op = "malloc" /\ e.st = UCS_OK)

\* C8: a listen call frees its listener record at most once, and only a
\* record it allocated; when it returns a status other than UCS_OK after
\* allocating a record, the record has been freed exactly once; when it
\* returns UCS_OK the record has not been freed.
C8_RecordReleased ==
    InListen =>
        /\ Len(Mallocs) <= 1
        /\ Count("free") <= Len(Mallocs)
        /\ (Returning /\ status # UCS_OK) =>
               /\ Count("free") = Len(Mallocs)
               /\ listener # NULL => ~heap[listener].alloc
               /\ \A a \in Addr : heap[a].alloc => a \in handles
        /\ (Returning /\ status = UCS_OK) =>
               /\ Len(Mallocs) = 1
               /\ Count("free") = 0
               /\ heap[listener].alloc

\* listen returns UCS_ERR_INVALID_PARAM for a null callback after its record
\* was allocated and freed
C8_Witness ==
    /\ Returning
    /\ status = UCS_ERR_INVALID_PARAM
    /\ NullCallbackGiven(params)
    /\ Len(Mallocs) = 1
    /\ Count("free") = 1

\* ---- C9 ----------------------------------------------------------------
QueuedReqs  == {queue[i].req : i \in DOMAIN queue}
InvokedReqs == {calls[i].req : i \in DOMAIN calls}
TimesQueued(id)  == Cardinality({i \in DOMAIN queue : queue[i].req = id})
TimesInvoked(id) == Cardinality({i \in DOMAIN calls : calls[i].req = id})

\* C9 (state part): a request whose accept record could not be allocated was
\* raised on a listener with a user callback, got UCS_ERR_NO_MEMORY, has no
\* progress item and no user callback invocation, now or later; every other
\* request on a listener with a callback, before or after it, got UCS_OK and
\* has exactly one progress item or exactly one invocation.
C9_State ==
    \A i \in DOMAIN requests :
        LET r == requests[i]
        IN  /\ r.accept = "null" =>
                /\ r.cb # "NULL"
                /\ r.status = UCS_ERR_NO_MEMORY
                /\ ~r.deferred
                /\ r.id \notin QueuedReqs
                /\ r.id \notin InvokedReqs
            /\ r.status = UCS_ERR_NO_MEMORY => r.accept = "null"
            /\ (r.cb # "NULL" /\ r.accept # "null") =>
                /\ r.accept = "ok"
                /\ r.status = UCS_OK
                /\ r.deferred
                /\ TimesQueued(r.id) + TimesInvoked(r.id) = 1

\* C9 (step part): the callback that fails to allocate changes nothing but
\* its returned status: the progress queue, the listener records and the
\* invocation log stay as they were.
C9_Step ==
    (Len(requests') = Len(requests) + 1
       /\ requests'[Len(requests')].accept = "null") =>
        UNCHANGED <<queue, calls, heap, gen, handles>>

\* C9: a connection request whose accept-record allocation fails is answered
\* UCS_ERR_NO_MEMORY, registers no progress item and never reaches the user
\* callback; the requests around it are unaffected.
C9_NoMemoryRejected == []C9_State /\ [][C9_Step]_vars

\* a request failed and another request of the same listener was delivered
\* to the user callback
C9_Witness ==
    \E j, k \in DOMAIN requests :
        /\ j # k
        /\ requests[j].accept = "null"
        /\ requests[k].lst = requests[j].lst
        /\ requests[k].gen = requests[j].gen
        /\ requests[k].id \in InvokedReqs

\* ---- C10 ---------------------------------------------------------------
\* C10 (state part): a listener that listen opens without the callback bit
\* has a null callback; a request raised on a listener with a null callback
\* allocated no accept record, registered nothing and got UCS_OK.
C10_State ==
    /\ (pc \in {"iface_init", "publish"} \/ (pc \in {"out", "cs_exit", "ret"} /\ status = UCS_OK)) =>
          (UCP_WORKER_LISTENER_PARAM_FIELD_CALLBACK \notin params.field_mask
              <=> heap[listener].cb = "NULL")
    /\ \A i \in DOMAIN requests :
          requests[i].cb = "NULL" =>
              /\ requests[i].status = UCS_OK
              /\ requests[i].accept = "none"
              /\ ~requests[i].deferred
              /\ requests[i].id \notin QueuedReqs
              /\ requests[i].id \notin InvokedReqs

\* C10 (step part): the callback on a listener without user callback leaves
\* every part of the state but the request log as it was, and makes no
\* accept record.
C10_Step ==
    (Len(requests') = Len(requests) + 1
       /\ requests'[Len(requests')].cb = "NULL") =>
        /\ UNCHANGED <<mmVars, tls, heap, gen, handles, pc, params, tl_id,
                       listener, status, listener_p, mt_lock, async_block,
                       ev, queue, calls, n_listen, crashed>>
        /\ accepts' = Append(accepts, NoAccept)

\* C10: on a listener created without a user callback the connection-request
\* callback returns UCS_OK and changes nothing, however many requests arrive.
C10_NoCallbackNoEffect == []C10_State /\ [][C10_Step]_vars

\* two requests were answered on a listener created without the callback bit
C10_Witness ==
    \E i, j \in DOMAIN requests :
        /\ i < j
        /\ requests[i].lst = requests[j].lst
        /\ requests[i].cb = "NULL" /\ requests[j].cb = "NULL"
        /\ requests[j].status = UCS_OK

\* ---- C1 ----------------------------------------------------------------
\* requests of the record now living at address a that registered an item
AcceptedBy(a) ==
    SelectSeq(requests, LAMBDA r : r.lst = a /\ r.gen = gen[a] /\ r.deferred)

\* user callback invocations made through the record now living at a
InvokedOn(a) ==
    SelectSeq(calls, LAMBDA c : c.lst = a /\ c.gen = gen[a])

PendingFor(a) == SelectSeq(queue, LAMBDA q : q.listener = a)

\* C1: for a live listener with a user callback, once the worker has no item
\* left that points to it, the user callback has been invoked exactly once
\* per connection request accepted for that listener, in the order of the
\* requests, each time with the listener's argument and on the worker thread.
C1_DispatchExactlyOnceInOrder ==
    \A a \in Addr :
        (Listening(a) /\ heap[a].cb # "NULL" /\ PendingFor(a) = <<>>) =>
            /\ Len(InvokedOn(a)) = Len(AcceptedBy(a))
            /\ \A k \in DOMAIN InvokedOn(a) :
                  /\ k <= Len(AcceptedBy(a)) => InvokedOn(a)[k].req = AcceptedBy(a)[k].id
                  /\ InvokedOn(a)[k].arg = heap[a].arg
                  /\ InvokedOn(a)[k].cb = heap[a].cb
                  /\ InvokedOn(a)[k].thread = "worker"

\* ---- C2 ----------------------------------------------------------------
\* C2: once ucp_listener_destroy has freed a listener record, no progress
\* item that points to it is left on the worker (it was dropped or has run),
\* and no progress item ever reads a listener record that was freed after
\* the item was registered.
C2_NoUseAfterDestroy ==
    /\ \A i \in DOMAIN queue :
          /\ heap[queue[i].listener].alloc
          /\ gen[queue[i].listener] = queue[i].gen
    /\ \A i \in DOMAIN calls : ~calls[i].freed

\* ---- uct/sm/mm: the receive FIFO ---------------------------------------
\* The element and control-block layouts and the interface fields are
\* declared in mm_iface.h; the producer's write path, the consumer's
\* progress steps and the derivation of the release mask at open follow
\* the FIFO discipline of the specification (sections 4.1 and 4.3).  The
\* counters are 64 bits wide and count at most MaxWrites here.

MaxFifoShift == 1
FactorDen    == 4
MaxWrites    == 4

RECURSIVE Pow2(_)
Pow2(k) == IF k = 0 THEN 1 ELSE 2 * Pow2(k - 1)

\* the largest power of two that is at most n, for n >= 1
RECURSIVE Pow2Floor(_)
Pow2Floor(n) == IF n <= 1 THEN 1 ELSE 2 * Pow2Floor(n \div 2)

\* x & y on naturals
RECURSIVE BitAnd(_, _)
BitAnd(x, y) ==
    IF x = 0 \/ y = 0 THEN 0
    ELSE (x % 2) * (y % 2) + 2 * BitAnd(x \div 2, y \div 2)

FifoSizes == {Pow2(k) : k \in 0..MaxFifoShift}
\* release_fifo_factor in (0, 1], as factor / FactorDen
Factors   == 1..FactorDen

\* tail is refreshed every max(1, fifo_size * release_fifo_factor) drains,
\* rounded down to a power of two
ReleaseInterval(size, factor) ==
    LET drains == (size * factor) \div FactorDen
    IN  Pow2Floor(IF drains > 1 THEN drains ELSE 1)

\* variant: tail is refreshed once per lap of the FIFO whatever the factor
ReleaseFactorMask_Lap(size, factor) == size - 1

ReleaseFactorMask(size, factor) == ReleaseInterval(size, factor) - 1

fifo_mask == fifo_size - 1
Slot(i)   == BitAnd(i, fifo_mask)

\* a FIFO element: the owner bit of flags, and header + payload as one value
FreeElem == [owner |-> FALSE, data |-> 0]

\* open: zero the control block, read_index = 0, derive the masks
FifoOpen(size, factor) ==
    /\ fifo_size = size
    /\ release_fifo_factor = factor
    /\ fifo_release_factor_mask = ReleaseFactorMask(size, factor)
    /\ head = 0
    /\ tail = 0
    /\ read_index = 0
    /\ elems = [i \in 0..(size - 1) |-> FreeElem]
    /\ ep_pc = "idle"
    /\ ep_head = 0
    /\ ep_data = 0
    /\ cons_pc = "poll"
    /\ written = <<>>
    /\ dispatched = <<>>
    /\ fifo_log = <<>>
    /\ since_tail = 0

InitFifo ==
    /\ InitWorker(<<>>)
    /\ DescClosed
    /\ LayoutClosed
    /\ \E size \in FifoSizes, factor \in Factors : FifoOpen(size, factor)

notFifo == <<ucpVars, descVars, layoutVars>>

WriteAttempts ==
    Len(SelectSeq(fifo_log, LAMBDA e : e # "read"))
        + (IF ep_pc = "idle" THEN 0 ELSE 1)

\* producer: room in the FIFO, take the current head
Producer_Reserve ==
    /\ ep_pc = "idle"
    /\ WriteAttempts < MaxWrites
    /\ head - tail < fifo_size
    /\ ep_head' = head
    /\ head' = head + 1
    /\ ep_data' = Len(written) + 1
    /\ ep_pc' = "write"
    /\ UNCHANGED <<notFifo, fifo_size, release_fifo_factor,
                   fifo_release_factor_mask, tail, read_index, elems,
                   cons_pc, written, dispatched, fifo_log, since_tail>>

\* producer: head - tail == fifo_size, fail fast with no_resource
Producer_NoResource ==
    /\ ep_pc = "idle"
    /\ WriteAttempts < MaxWrites
    /\ ~(head - tail < fifo_size)
    /\ fifo_log' = Append(fifo_log, "no_resource")
    /\ UNCHANGED <<notFifo, fifo_size, release_fifo_factor,
                   fifo_release_factor_mask, head, tail, read_index, elems,
                   ep_pc, ep_head, ep_data, cons_pc, written, dispatched,
                   since_tail>>

\* producer: write header and payload into the element it reserved
Producer_Write ==
    /\ ep_pc = "write"
    /\ elems' = [elems EXCEPT ![Slot(ep_head)].data = ep_data]
    /\ ep_pc' = "publish"
    /\ UNCHANGED <<notFifo, fifo_size, release_fifo_factor,
                   fifo_release_factor_mask, head, tail, read_index,
                   ep_head, ep_data, cons_pc, written, dispatched, fifo_log,
                   since_tail>>

\* producer: publish the element by setting the owned-by-consumer bit
Producer_Publish ==
    /\ ep_pc = "publish"
    /\ elems' = [elems EXCEPT ![Slot(ep_head)].owner = TRUE]
    /\ written' = Append(written, ep_data)
    /\ fifo_log' = Append(fifo_log, "ok")
    /\ ep_pc' = "idle"
    /\ UNCHANGED <<notFifo, fifo_size, release_fifo_factor,
                   fifo_release_factor_mask, head, tail, read_index,
                   ep_head, ep_data, cons_pc, dispatched, since_tail>>

\* variant: the consumer processes the element at read_index whether or
\* not its owner bit is set
Consumer_Poll_Unchecked ==
    /\ cons_pc = "poll"
    /\ read_index < MaxWrites
    /\ cons_pc' = "dispatch"
    /\ UNCHANGED <<notFifo, fifo_size, release_fifo_factor,
                   fifo_release_factor_mask, head, tail, read_index, elems,
                   ep_pc, ep_head, ep_data, written, dispatched, fifo_log,
                   since_tail>>

\* consumer: look at element read_index & fifo_mask and go on only when its
\* owner bit shows a completed write (otherwise progress returns 0)
Consumer_Poll ==
    /\ cons_pc = "poll"
    /\ read_index < MaxWrites
    /\ elems[Slot(read_index)].owner
    /\ cons_pc' = "dispatch"
    /\ UNCHANGED <<notFifo, fifo_size, release_fifo_factor,
                   fifo_release_factor_mask, head, tail, read_index, elems,
                   ep_pc, ep_head, ep_data, written, dispatched, fifo_log,
                   since_tail>>

\* consumer: hand the element to the active-message dispatch
Consumer_Dispatch ==
    /\ cons_pc = "dispatch"
    /\ dispatched' = Append(dispatched, elems[Slot(read_index)].data)
    /\ cons_pc' = "clear"
    /\ UNCHANGED <<notFifo, fifo_size, release_fifo_factor,
                   fifo_release_factor_mask, head, tail, read_index, elems,
                   ep_pc, ep_head, ep_data, written, fifo_log, since_tail>>

\* consumer: clear the element's owner bit
Consumer_Clear ==
    /\ cons_pc = "clear"
    /\ elems' = [elems EXCEPT ![Slot(read_index)].owner = FALSE]
    /\ cons_pc' = "advance"
    /\ UNCHANGED <<notFifo, fifo_size, release_fifo_factor,
                   fifo_release_factor_mask, head, tail, read_index,
                   ep_pc, ep_head, ep_data, written, dispatched, fifo_log,
                   since_tail>>

\* is tail published at the read index r
TailDue(r) == BitAnd(r, fifo_release_factor_mask) = 0

\* variant: tail is published after every advance
TailAfterAdvance_Always(r) == r

\* tail after the consumer advanced to read index r
TailAfterAdvance(r) == IF TailDue(r) THEN r ELSE tail

\* consumer: advance read_index and publish tail = read_index whenever
\* (read_index & fifo_release_factor_mask) == 0
Consumer_Advance ==
    /\ cons_pc = "advance"
    /\ read_index' = read_index + 1
    /\ tail' = TailAfterAdvance(read_index + 1)
    /\ since_tail' = IF tail' = read_index' THEN 0 ELSE since_tail + 1
    /\ fifo_log' = Append(fifo_log, "read")
    /\ cons_pc' = "poll"
    /\ UNCHANGED <<notFifo, fifo_size, release_fifo_factor,
                   fifo_release_factor_mask, head, elems, ep_pc, ep_head,
                   ep_data, written, dispatched>>

Producer == Producer_Reserve \/ Producer_NoResource \/ Producer_Write
                \/ Producer_Publish
Consumer == Consumer_Poll \/ Consumer_Dispatch \/ Consumer_Clear
                \/ Consumer_Advance

NextFifo == Producer \/ Consumer

SpecFifo == InitFifo /\ [][NextFifo]_vars

\* the worker keeps calling progress: no consumer step waits for ever
FairSpecFifo ==
    /\ SpecFifo
    /\ WF_vars(Consumer_Poll)
    /\ WF_vars(Consumer_Dispatch)
    /\ WF_vars(Consumer_Clear)
    /\ WF_vars(Consumer_Advance)

TypeOKFifo ==
    /\ fifo_size \in FifoSizes
    /\ release_fifo_factor \in Factors
    /\ fifo_release_factor_mask \in 0..(fifo_size - 1)
    /\ head \in 0..MaxWrites
    /\ tail \in 0..MaxWrites
    /\ read_index \in 0..MaxWrites
    /\ DOMAIN elems = 0..(fifo_size - 1)
    /\ ep_pc \in {"idle", "write", "publish"}
    /\ cons_pc \in {"poll", "dispatch", "clear", "advance"}

\* ---- claims on the receive FIFO ----------------------------------------

IsPrefix(s, t) == Len(s) <= Len(t) /\ \A i \in 1..Len(s) : s[i] = t[i]

\* what the handler has seen is a prefix of what the producer published
C11_InOrder == IsPrefix(dispatched, written)

\* the element the producer is filling is not one the consumer has yet to
\* read: it lies less than one lap ahead of read_index and is not owned
C11_NoOverwrite ==
    ep_pc # "idle" =>
        /\ ep_head - read_index < fifo_size
        /\ ~elems[Slot(ep_head)].owner

\* C11: with one producer and one consumer following the owner-bit
\* protocol, under every interleaving the elements dispatched to the
\* active-message handler are the elements the producer wrote, in the same
\* order and each exactly once: none is duplicated or reordered, none is
\* overwritten before it is consumed, and none is lost (every published
\* element is eventually dispatched while the worker keeps progressing).
C11_FifoOrder ==
    /\ [](C11_InOrder /\ C11_NoOverwrite)
    /\ \A n \in 1..MaxWrites :
           (Len(written) >= n) ~> (Len(dispatched) >= n)

\* more elements than the FIFO has slots went through it, so slots were
\* reused, and the consumer has dispatched all of them
C11_Witness ==
    /\ fifo_size > 1
    /\ Len(written) > fifo_size
    /\ dispatched = written

\* the first fifo_size events of the FIFO are successful writes
FilledUnread ==
    /\ Len(fifo_log) >= fifo_size
    /\ \A i \in 1..fifo_size : fifo_log[i] = "ok"

\* number of reads among the first n events
ReadsIn(n) == Len(SelectSeq(SubSeq(fifo_log, 1, n), LAMBDA e : e = "read"))

\* the write results that follow the fill
LaterWrites == {i \in (fifo_size + 1)..Len(fifo_log) : fifo_log[i] # "read"}

\* C12 (as stated): after fifo_size successful writes with no reads the next
\* write fails with no_resource, and the write that follows the drain of
\* exactly one element succeeds, for every fifo_size and release factor.
C12_OneReadAdmitsOneWrite ==
    FilledUnread =>
        \A i \in LaterWrites :
            /\ ReadsIn(i - 1) = 0 => fifo_log[i] = "no_resource"
            /\ (ReadsIn(i - 1) = 1 /\ fifo_log[i - 1] = "read")
                   => fifo_log[i] = "ok"

\* C12 (amended): after fifo_size successful writes with no reads the next
\* write fails with no_resource and writes keep failing until the consumer
\* has drained fifo_release_factor_mask + 1 elements, the point at which it
\* publishes tail; the write that follows that drain succeeds.  One drained
\* element is enough exactly when the release interval is 1.
C12_Backpressure ==
    FilledUnread =>
        \A i \in LaterWrites :
            /\ ReadsIn(i - 1) <= fifo_release_factor_mask
                   => fifo_log[i] = "no_resource"
            /\ (ReadsIn(i - 1) = fifo_release_factor_mask + 1
                  /\ fifo_log[i - 1] = "read") => fifo_log[i] = "ok"

\* a FIFO with release interval 2 was filled, one drained element did not
\* admit a write, the second one did
C12_Witness ==
    /\ fifo_release_factor_mask = 1
    /\ fifo_log = <<"ok", "ok", "read", "no_resource", "read", "ok">>

\* ceil(fifo_size * release_fifo_factor)
CeilDrains == (fifo_size * release_fifo_factor + FactorDen - 1) \div FactorDen

C13_State ==
    /\ tail <= read_index
    /\ read_index <= head
    /\ head - tail <= fifo_size
    /\ since_tail < CeilDrains

C13_Step == read_index' >= read_index

NumIface == 2
NumDesc  == 2
MaxAm    == 3

UCS_INPROGRESS == "UCS_INPROGRESS"

Iface      == 1..NumIface
\* descriptor n of the pool of interface mp
Desc       == [mp : Iface, n : 1..NumDesc]
AmStatuses == {UCS_OK, UCS_INPROGRESS}
\* the null descriptor pointer
NoDesc     == [mp |-> NULL, n |-> NULL]

AmEvent(i, st, d, got) ==
    [op |-> "am", iface |-> i, status |-> st, desc |-> d, got |-> got]
ReleaseEvent(i, d) ==
    [op |-> "release", iface |-> i, status |-> UCS_OK, desc |-> d,
     got |-> NoDesc]

\* ucs_mpool_get: some free descriptor of the pool, or NULL when it is empty
ucs_mpool_get(pool) == IF pool = {} THEN {NoDesc} ELSE pool

\* open: prime the pool of every interface and pre-fetch last_recv_desc
InitDesc ==
    /\ InitWorker(<<>>)
    /\ FifoClosed
    /\ LayoutClosed
    /\ \E first \in [Iface -> 1..NumDesc] :
          /\ last_recv_desc = [i \in Iface |-> [mp |-> i, n |-> first[i]]]
          /\ recv_desc_mp = [i \in Iface |->
                 {d \in Desc : d.mp = i /\ d.n # first[i]}]
    /\ held = {}
    /\ desc_iface = [d \in Desc |-> NULL]
    /\ am_log = <<>>
    /\ mm_fatal = FALSE

notDesc == <<ucpVars, fifoVars, layoutVars>>

\* variant: the cached descriptor is kept whatever the handler answers
AmNeedsDesc_Never(st) == FALSE

\* line 99: a replacement is needed unless the handler consumed the data
AmNeedsDesc(st) == st # UCS_OK

\* variant: an empty pool is not noticed
AmFatal_Never(d) == FALSE

\* lines 101-103: no replacement descriptor
AmFatal(d) == d = NoDesc

\* variant: the stamp goes to the replacement descriptor
AmStamp_Replacement(mm_desc, new_desc, i) ==
    [desc_iface EXCEPT ![new_desc] = i]

\* line 105: uct_recv_desc_iface(desc) = &iface->super.super, desc being
\* the user part of the descriptor the dispatch was called with
AmStamp(mm_desc, new_desc, i) == [desc_iface EXCEPT ![mm_desc] = i]

\* uct_mm_iface_invoke_am(iface, am_id, data, length, iface->last_recv_desc)
\* with the handler answering st
uct_mm_iface_invoke_am(i, st) ==
    /\ ~mm_fatal
    /\ Len(am_log) < MaxAm
    /\ last_recv_desc[i] # NoDesc
    /\ LET mm_desc == last_recv_desc[i]
       IN  IF AmNeedsDesc(st)
           THEN \E d \in ucs_mpool_get(recv_desc_mp[i]) :
                  /\ held' = held \cup {mm_desc}
                  /\ last_recv_desc' = [last_recv_desc EXCEPT ![i] = d]
                  /\ recv_desc_mp' =
                         [recv_desc_mp EXCEPT ![i] = recv_desc_mp[i] \ {d}]
                  /\ am_log' = Append(am_log, AmEvent(i, st, mm_desc, d))
                  /\ IF AmFatal(d)
                     THEN mm_fatal' = TRUE /\ UNCHANGED desc_iface
                     ELSE /\ desc_iface' = AmStamp(mm_desc, d, i)
                          /\ UNCHANGED mm_fatal
           ELSE /\ held' = IF st = UCS_OK THEN held
                           ELSE held \cup {mm_desc}
                /\ am_log' = Append(am_log, AmEvent(i, st, mm_desc, NoDesc))
                /\ UNCHANGED <<last_recv_desc, recv_desc_mp, desc_iface,
                               mm_fatal>>
    /\ UNCHANGED notDesc

\* uct_mm_iface_release_am_desc(tl_iface, desc): the holder of desc passes
\* the interface stamped on it; desc goes back to that interface's pool
uct_mm_iface_release_am_desc(d) ==
    /\ ~mm_fatal
    /\ Len(am_log) < MaxAm
    /\ d \in held
    /\ desc_iface[d] \in Iface
    /\ LET tl_iface == desc_iface[d]
       IN  /\ recv_desc_mp' =
                  [recv_desc_mp EXCEPT ![tl_iface] = recv_desc_mp[tl_iface] \cup {d}]
           /\ am_log' = Append(am_log, ReleaseEvent(tl_iface, d))
    /\ held' = held \ {d}
    /\ UNCHANGED <<last_recv_desc, desc_iface, mm_fatal, notDesc>>

NextDesc ==
    \/ \E i \in Iface, st \in AmStatuses : uct_mm_iface_invoke_am(i, st)
    \/ \E d \in Desc : uct_mm_iface_release_am_desc(d)

SpecDesc == InitDesc /\ [][NextDesc]_vars

TypeOKDesc ==
    /\ recv_desc_mp \in [Iface -> SUBSET Desc]
    /\ last_recv_desc \in [Iface -> Desc \cup {NoDesc}]
    /\ held \subseteq Desc
    /\ desc_iface \in [Desc -> Iface \cup {NULL}]
    /\ Len(am_log) <= MaxAm
    /\ mm_fatal \in BOOLEAN

\* ---- claims on the receive descriptors ---------------------------------

LastAm == am_log[Len(am_log)]

\* dispatches in which the handler held the descriptor
HeldDispatches ==
    {k \in DOMAIN am_log :
        am_log[k].op = "am" /\ am_log[k].status = UCS_INPROGRESS}

\* C14: after any sequence of dispatches and releases, whenever control is
\* back in the progress loop (the fatal state was not reached) every
\* interface's last_recv_desc is non-null; the fatal state is reached only
\* by a dispatch whose handler held the descriptor while the interface's
\* pool was empty, and nothing runs after it.
C14_CachedDescriptor ==
    /\ ~mm_fatal => \A i \in Iface : last_recv_desc[i] # NoDesc
    /\ mm_fatal =>
          /\ Len(am_log) \in HeldDispatches
          /\ LastAm.got = NoDesc
          /\ recv_desc_mp[LastAm.iface] = {}
    /\ \A k \in HeldDispatches :
          am_log[k].got = NoDesc => (mm_fatal /\ k = Len(am_log))

\* an interface replaced its descriptor from the pool after one held
\* dispatch and found the pool empty at the next one
C14_Witness ==
    /\ mm_fatal
    /\ \E k \in HeldDispatches :
          /\ am_log[k].iface = LastAm.iface
          /\ am_log[k].got # NoDesc

\* descriptors stay with the interface whose pool they came from
C17_State ==
    /\ \A i \in Iface :
          /\ \A d \in recv_desc_mp[i] : d.mp = i
          /\ last_recv_desc[i] # NoDesc => last_recv_desc[i].mp = i
    /\ \A d \in held : ~mm_fatal => desc_iface[d] = d.mp

\* the effect of one dispatch or release that returned
C17_Step ==
    (Len(am_log') = Len(am_log) + 1 /\ ~mm_fatal') =>
        LET e == am_log'[Len(am_log')]
            i == e.iface
        IN  /\ (e.op = "am" /\ e.status = UCS_OK) =>
                  UNCHANGED <<last_recv_desc, recv_desc_mp, held, desc_iface>>
            /\ (e.op = "am" /\ e.status = UCS_INPROGRESS) =>
                  /\ e.desc = last_recv_desc[i]
                  /\ e.got \in recv_desc_mp[i]
                  /\ recv_desc_mp' =
                         [recv_desc_mp EXCEPT ![i] = recv_desc_mp[i] \ {e.got}]
                  /\ last_recv_desc' = [last_recv_desc EXCEPT ![i] = e.got]
                  /\ desc_iface' = [desc_iface EXCEPT ![e.desc] = i]
                  /\ held' = held \cup {e.desc}
            /\ e.op = "release" =>
                  /\ recv_desc_mp' =
                         [recv_desc_mp EXCEPT ![e.desc.mp] =
                              recv_desc_mp[e.desc.mp] \cup {e.desc}]
                  /\ held' = held \ {e.desc}
                  /\ UNCHANGED <<last_recv_desc, desc_iface>>

\* C17: a dispatch that returns consumed (UCS_OK) leaves last_recv_desc and
\* the pool unchanged; a dispatch that returns held takes exactly one
\* descriptor from the interface's pool, makes it last_recv_desc and stamps
\* the held descriptor with the interface, so that a later release_am_desc
\* puts it back into the pool of the interface it came from.
C17_DispatchEffect == []C17_State /\ [][C17_Step]_vars

\* a handler of interface 2 held a descriptor, released it, and the next
\* dispatch was consumed
C17_Witness ==
    /\ Len(am_log) = 3
    /\ am_log[1].op = "am" /\ am_log[1].status = UCS_INPROGRESS
    /\ am_log[1].iface = NumIface
    /\ am_log[2].op = "release" /\ am_log[2].desc = am_log[1].desc
    /\ am_log[3].op = "am" /\ am_log[3].status = UCS_OK
    /\ am_log[1].desc \in recv_desc_mp[NumIface]

\* where a descriptor is: in pools, cached by interfaces, held by a handler
Places(d) ==
    Cardinality({i \in Iface : d \in recv_desc_mp[i]})
        + Cardinality({i \in Iface : last_recv_desc[i] = d})
        + (IF d \in held THEN 1 ELSE 0)

HeldOf(i) == {d \in held : d.mp = i}

\* C19: after any sequence of dispatches and releases every descriptor is in
\* exactly one place: free in a pool, cached as an interface's
\* last_recv_desc, or held by a handler; the replacement taken after a held
\* dispatch is not a held descriptor; and the held descriptors of an
\* interface plus its cached one exceed the capacity of its pool only in
\* the fatal state.
C19_SingleOwner ==
    /\ \A d \in Desc : Places(d) = 1
    /\ \A i \in Iface : last_recv_desc[i] \notin held
    /\ \A i \in Iface :
          Cardinality(HeldOf(i)) + 1 > NumDesc =>
              (mm_fatal /\ last_recv_desc[i] = NoDesc)

\* a descriptor that was held and released is cached again while the
\* descriptor it had replaced is held
C19_Witness ==
    /\ Len(am_log) = 3
    /\ am_log[2].op = "release"
    /\ am_log[3].op = "am" /\ am_log[3].status = UCS_INPROGRESS
    /\ am_log[3].got = am_log[2].desc
    /\ last_recv_desc[am_log[3].iface] = am_log[2].desc
    /\ am_log[3].desc \in held

\* ---- uct/sm/mm: layout of the FIFO region --------------------------------
\* UCT_MM_FIFO_CTL_SIZE_ALIGNED, UCT_MM_GET_FIFO_SIZE and
\* uct_mm_set_fifo_ptrs are in mm_iface.h; the alignment macros of ucs they
\* call are modelled by their arithmetic.  Pointers are PtrBits wide and
\* the 'unsigned' fields fifo_size and elem_size UnsignedBits wide (64 and
\* 32 in the build): the widths are scaled down with the sizes so that the
\* bounded inputs reach them.

MaxLineShift == 5
MaxRegion    == 40
MaxElemSize  == 4
PtrBits      == 12
UnsignedBits == 3

\* sizeof(uct_mm_fifo_ctl_t): two packed 64-bit counters
FifoCtlSize == 16

PtrMod      == Pow2(PtrBits)
UnsignedMod == Pow2(UnsignedBits)

CacheLines == {Pow2(k) : k \in 0..MaxLineShift}
ElemSizes  == 1..MaxElemSize
\* region start addresses: the bottom and the top of the address space
Regions    == (0..MaxRegion) \cup {PtrMod - k : k \in 1..MaxRegion}

\* ~x on a pointer-wide value
BitNot(x) == PtrMod - 1 - x

\* ucs_align_up_pow2(n, alignment): (n + alignment - 1) & ~(alignment - 1)
ucs_align_up_pow2(n, alignment) ==
    BitAnd((n + alignment - 1) % PtrMod, BitNot(alignment - 1))

\* ucs_align_up(n, alignment): n plus the padding to the next multiple
ucs_align_up(n, alignment) == n + ((alignment - (n % alignment)) % alignment)

\* line 18
UCT_MM_FIFO_CTL_SIZE_ALIGNED == ucs_align_up(FifoCtlSize, cache_line)

\* lines 20-23: the product is formed in 'unsigned' before it is added
UCT_MM_GET_FIFO_SIZE ==
    cache_line - 1 + UCT_MM_FIFO_CTL_SIZE_ALIGNED
        + ((fifo_size * elem_size) % UnsignedMod)

\* variant: the region start itself is taken as the control block
FifoCtlPtr_Unaligned(region) == region

\* lines 121-122
FifoCtlPtr(region) == ucs_align_up_pow2(region, cache_line)

\* line 125
FifoElemsPtr(ctl) == (ctl + UCT_MM_FIFO_CTL_SIZE_ALIGNED) % PtrMod

\* open: a region of UCT_MM_GET_FIFO_SIZE bytes is mapped at mem_region,
\* inside the address space
InitLayout ==
    /\ InitWorker(<<>>)
    /\ DescClosed
    /\ \E size \in FifoSizes : FifoOpen(size, FactorDen)
    /\ cache_line \in CacheLines
    /\ elem_size \in ElemSizes
    /\ region_size = UCT_MM_GET_FIFO_SIZE
    /\ mem_region \in Regions
    /\ mem_region + region_size < PtrMod
    /\ fifo_ctl = 0
    /\ fifo_elems = 0

uct_mm_set_fifo_ptrs ==
    /\ fifo_elems = 0
    /\ fifo_ctl' = FifoCtlPtr(mem_region)
    /\ fifo_elems' = FifoElemsPtr(fifo_ctl')
    /\ UNCHANGED <<ucpVars, fifoVars, descVars, mem_region, cache_line,
                   elem_size, region_size>>

NextLayout == uct_mm_set_fifo_ptrs

SpecLayout == InitLayout /\ [][NextLayout]_vars

\* ---- claims on the layout ----------------------------------------------

PtrsSet == fifo_elems # 0

\* the cache-line-rounded size of the control block
RoundedCtlSize ==
    CHOOSE s \in FifoCtlSize..(FifoCtlSize + cache_line) :
        s % cache_line = 0 /\ s - FifoCtlSize < cache_line

\* C15: for every region start R and every power-of-two cache-line size,
\* uct_mm_set_fifo_ptrs yields a control-block pointer that is a multiple
\* of the cache-line size and the smallest such address at or after R, so
\* that it is 0 .. cache_line - 1 bytes past R, and an elements base equal
\* to that pointer plus the cache-line-rounded size of the control block.
C15_AlignedPointers ==
    PtrsSet =>
        /\ fifo_ctl % cache_line = 0
        /\ fifo_ctl >= mem_region
        /\ fifo_ctl - mem_region \in 0..(cache_line - 1)
        /\ \A a \in mem_region..(fifo_ctl - 1) : a % cache_line # 0
        /\ fifo_elems = fifo_ctl + RoundedCtlSize

\* an unaligned region start with a cache line longer than the control
\* block: the pointer moved up and the block size was rounded up
C15_Witness ==
    /\ PtrsSet
    /\ cache_line > FifoCtlSize
    /\ fifo_ctl > mem_region
    /\ fifo_elems = fifo_ctl + cache_line

\* address of the element with index i
ElemAddr(i) == fifo_elems + Slot(i) * elem_size

RegionEnd == mem_region + region_size

\* the bytes of the element in slot s
SlotBytes(s) == (fifo_elems + s * elem_size)..(fifo_elems + (s + 1) * elem_size - 1)

\* C20: for every region start R, every fifo_size and elem_size, the
\* control block and all fifo_size elements placed by uct_mm_set_fifo_ptrs
\* lie inside the UCT_MM_GET_FIFO_SIZE bytes mapped at R: the element area
\* ends at or before the end of the mapping, the element of every index i
\* ends inside it, and distinct slots overlap neither each other nor the
\* control block.
C20_ElementsInsideRegion ==
    PtrsSet =>
        /\ fifo_ctl >= mem_region
        /\ fifo_elems + fifo_size * elem_size <= RegionEnd
        /\ \A i \in 0..(2 * fifo_size) : ElemAddr(i) + elem_size <= RegionEnd
        /\ \A s \in 0..(fifo_size - 1) :
              /\ fifo_elems + s * elem_size >= fifo_ctl + FifoCtlSize
              /\ \A t \in 0..(fifo_size - 1) :
                    s # t => SlotBytes(s) \cap SlotBytes(t) = {}

\* ---- claims on accept records and on listener mutations ----------------

\* requests for which ucs_malloc gave an accept record
Allocated == {id \in DOMAIN requests : requests[id].accept = "ok"}

LiveAccepts == {id \in DOMAIN accepts : accepts[id].live}

\* the request whose deferred run jumped through a null or wild callback
\* pointer: the process ended inside the call, before ucs_free(accept)
CrashedRun == IF crashed THEN {calls[Len(calls)].req} ELSE {}

C18_Step == heap' # heap => (mt_lock > 0 /\ async_block > 0)

\* C18: every mutation of a listener record, in ucp_worker_listen and in
\* ucp_listener_destroy, happens while the worker critical section is held
\* and async callbacks are blocked, so that no connection-request callback
\* and no deferred item of that listener runs during it.
C18_MutationsBracketed == [][C18_Step]_vars

====
